---- MODULE Spec2Model ----
(***************************************************************************)
(* Model of src/board.rs: the recursive catalog scan get_boards, the       *)
(* per-file loader Board::load_from_toml and Board's PartialEq.            *)
(*                                                                         *)
(* The file system under boards_dir is a finite tree of entries.  The      *)
(* recursion of get_boards is an explicit stack of frames, one per active  *)
(* call, each with its own accumulator r and the rest of its read_dir      *)
(* iterator.  A panic (unwrap / expect on a failure) ends the run in       *)
(* pc = "panicked".  The file system does not change during a scan, and    *)
(* an entry that read_dir yields is never itself an I/O error, so the two  *)
(* expect calls at the head of the loop do not fire.                       *)
(***************************************************************************)
EXTENDS Integers, Sequences, FiniteSets, TLC

\* Bounds: the total number of entries (files and directories) below
\* boards_dir, for trees over all the entries of the model and for trees
\* over its core entries (loadable metadata files, a file of another
\* extension and listable directories).
MaxEntries == 3
MaxCoreEntries == 4

----------------------------------------------------------------------------
(* Option<T> as a sequence of length 0 or 1.                               *)
None == <<>>
Some(x) == <<x>>

(* A path component: the file name split at its last dot, as               *)
(* Path::extension sees it ("README" has no extension).                    *)
Name(stem, ext) == [stem |-> stem, ext |-> ext]

TomlExt == "toml"
ExamplesName == Name("examples", None)

(* Board as deserialized from the metadata text: the serde fields; the     *)
(* two #[serde(skip)] fields start at their defaults.                      *)
Board(name, manufacturer, other) ==
    [name |-> name, manufacturer |-> manufacturer,
     standard |-> other, cpu |-> other, ram |-> other, flash |-> other,
     examples |-> <<>>, pic |-> None, related_crates |-> other]

NoBoard == Board("", "", None)

(* The keys a metadata text declares.  Every well-formed text of the model *)
(* also carries an `examples` key, which Board does not deserialize.       *)
Keys(name, manufacturer, other) ==
    [name |-> name, manufacturer |-> manufacturer, other |-> other,
     examples |-> << << Name("declared", Some("ino")) >> >>]

NoKeys == [name |-> "", manufacturer |-> "", other |-> None, examples |-> <<>>]

\* a derived PartialEq would compare every field
BoardEqByAllFields(self, other) == self = other

(* impl PartialEq for Board *)
Board_eq(self, other) == self.name = other.name

----------------------------------------------------------------------------
(* The file system below boards_dir: a table of entries in depth-first     *)
(* order, each naming its parent (0 is boards_dir itself).  The entries of *)
(* one directory are enumerated by read_dir in table order.                *)
(*   text     what fs::read_to_string + toml::from_str make of a file:     *)
(*            "valid" (parses, declaring keys), "malformed", "unreadable"  *)
(*   decodes  whether the image decoder accepts the file's bytes           *)
(*   listable whether read_dir succeeds on a directory                     *)
FileEntry(name, text, keys, decodes) ==
    [name |-> name, is_dir |-> FALSE, listable |-> FALSE,
     text |-> text, keys |-> keys, decodes |-> decodes, parent |-> 0]

DirEntry(name, listable) ==
    [name |-> name, is_dir |-> TRUE, listable |-> listable,
     text |-> "unreadable", keys |-> NoKeys, decodes |-> FALSE, parent |-> 0]

BoardNames == {"N1", "N2"}
Stems == {"a", "b"}

TomlFiles ==
    { FileEntry(Name(s, Some(TomlExt)), "valid", Keys(n, "M", None), FALSE) :
        s \in Stems, n \in BoardNames }
    \cup { FileEntry(Name("a", Some(TomlExt)), t, NoKeys, FALSE) :
        t \in {"malformed", "unreadable"} }

OtherFiles ==
    { FileEntry(Name("a", Some("png")), "unreadable", NoKeys, d) : d \in BOOLEAN }
    \cup { FileEntry(Name("a", Some("txt")), "valid", Keys("N1", "M", None), FALSE),
           FileEntry(Name("README", None), "malformed", NoKeys, FALSE) }

Dirs == { DirEntry(d, l) : d \in { ExamplesName, Name("m", None) }, l \in BOOLEAN }

Entries == TomlFiles \cup OtherFiles \cup Dirs

CoreEntries ==
    { e \in TomlFiles : e.text = "valid" /\ e.keys.name = (IF e.name.stem = "a" THEN "N1" ELSE "N2") }
    \cup { e \in OtherFiles : e.name.ext = Some("txt") }
    \cup { d \in Dirs : d.listable }

RECURSIVE Ancestors(_, _)
\* i and every directory above it, boards_dir (0) included
Ancestors(par, i) ==
    IF i = 0 THEN {0}
    ELSE {i} \cup (IF par[i] < i THEN Ancestors(par, par[i]) ELSE {})

(* par and ent describe a directory tree: the table is in depth-first      *)
(* order, only directories have entries, and no directory holds two        *)
(* entries of the same name.                                               *)
IsShape(par) == \A i \in DOMAIN par : par[i] \in Ancestors(par, i - 1)

IsTree(par, ent) ==
    \A i \in DOMAIN par :
        /\ par[i] # 0 => ent[par[i]].is_dir
        /\ \A j \in 1..(i - 1) : par[j] = par[i] => ent[j].name # ent[i].name

Shapes(n) == { par \in [1..n -> 0..(n - 1)] : IsShape(par) }

Table(par, ent) == [i \in DOMAIN ent |-> [ent[i] EXCEPT !.parent = par[i]]]

BoardsDirName == Name("boards", None)

----------------------------------------------------------------------------
(* std::path and std::fs, as far as board.rs uses them.                    *)

\* The path the caller passes to get_boards, relative to the working directory.
BoardsDir == << BoardsDirName >>

\* The working directory: what canonicalize puts in front of a relative path.
Cwd == << Name("/", None), Name("srv", None) >>

VARIABLES
    fs,        \* the file system: whether boards_dir is listable, and the table
    pc,        \* "start", "running", "done" (get_boards returned), "panicked"
    stack,     \* the active calls of get_boards, outermost first
    result,    \* the Vec<Board> the outermost call returned
    log,       \* the paths of the warn! lines, in order
    trace,     \* the file-system calls made so far, in order
    lhs, rhs, third,   \* three Boards handed to ==
    eq_out     \* the outcomes of == on them

vars == << fs, pc, stack, result, log, trace, lhs, rhs, third, eq_out >>

Ids == 1..Len(fs.entries)
IsDir(id) == id = 0 \/ fs.entries[id].is_dir
Listable(id) == IF id = 0 THEN fs.listable ELSE fs.entries[id].listable

\* the entries of directory id, in enumeration order
Kids(id) == SelectSeq([i \in Ids |-> i], LAMBDA i : fs.entries[i].parent = id)

IsAbsolute(p) == Len(p) > 0 /\ p[1] = Cwd[1]
Absolute(p) == IF IsAbsolute(p) THEN p ELSE Cwd \o p

RECURSIVE Walk(_, _)
Walk(id, comps) ==
    IF comps = <<>> THEN Some(id)
    ELSE LET hits == { i \in Ids : fs.entries[i].parent = id /\ fs.entries[i].name = Head(comps) }
         IN  IF hits = {} THEN None
             ELSE Walk(CHOOSE i \in hits : TRUE, Tail(comps))

\* The entry a path names, if any.
NodeAt(p) ==
    LET abs == Absolute(p)
        pre == Cwd \o BoardsDir
    IN  IF Len(abs) >= Len(pre) /\ SubSeq(abs, 1, Len(pre)) = pre
        THEN Walk(0, SubSeq(abs, Len(pre) + 1, Len(abs)))
        ELSE None

\* Path::extension, Path::with_extension, Path::ends_with, Path::parent, Path::join
extension(p) == p[Len(p)].ext
with_extension(p, ext) == [p EXCEPT ![Len(p)] = Name(p[Len(p)].stem, Some(ext))]
ends_with(p, name) == Len(p) > 0 /\ p[Len(p)] = name
parent(p) == IF Len(p) = 0 THEN None ELSE Some(SubSeq(p, 1, Len(p) - 1))
join(p, name) == Append(p, name)

\* Path::canonicalize: Ok(absolute path) if the path exists
canonicalize(p) == IF NodeAt(p) # None THEN Some(Absolute(p)) ELSE None

\* fs::DirEntry: path() and file_type().is_dir()
DirEntryOf(p, id) == [path |-> join(p, fs.entries[id].name), is_dir |-> fs.entries[id].is_dir]

\* fs::read_dir: Ok(entries in enumeration order) or Err
read_dir(p) ==
    LET n == NodeAt(p)
    IN  IF n # None /\ IsDir(n[1]) /\ Listable(n[1])
        THEN Some([i \in 1..Len(Kids(n[1])) |-> DirEntryOf(p, Kids(n[1])[i])])
        ELSE None

\* fs::read_to_string: Ok(the file's text) or Err
read_to_string(p) ==
    LET n == NodeAt(p)
    IN  IF n # None /\ ~IsDir(n[1]) /\ fs.entries[n[1]].text # "unreadable"
        THEN Some([text |-> fs.entries[n[1]].text, keys |-> fs.entries[n[1]].keys])
        ELSE None

\* a Board without #[serde(skip)] on examples would take the declared key
from_str_with_examples(toml_str) ==
    IF toml_str.text = "valid"
    THEN Some([Board(toml_str.keys.name, toml_str.keys.manufacturer, toml_str.keys.other)
                 EXCEPT !.examples = toml_str.keys.examples])
    ELSE None

\* toml::from_str::<Board>: the serde fields from the keys, the skipped
\* fields at their defaults
from_str(toml_str) ==
    IF toml_str.text = "valid"
    THEN Some(Board(toml_str.keys.name, toml_str.keys.manufacturer, toml_str.keys.other))
    ELSE None

\* image::io::Reader::open(p).unwrap().decode(): Ok(image) or Err; the
\* decoded image is stood for by the path it was read from
decode(p) ==
    LET n == NodeAt(p)
    IN  IF n # None /\ ~IsDir(n[1]) /\ fs.entries[n[1]].decodes THEN Some(p) ELSE None

Op(op, path) == [op |-> op, path |-> path]

----------------------------------------------------------------------------
(* Board::load_from_toml.  The outcome is Ok(board), Err, or a panic; ops  *)
(* are the file-system calls made on the way, in order.                    *)
Outcome(tag, board, ops) == [tag |-> tag, board |-> board, ops |-> ops]

\* a loop that keeps only the files of the examples directory
ExampleFilesOnly(entries) ==
    LET files == SelectSeq(entries, LAMBDA e : ~e.is_dir)
    IN  [i \in 1..Len(files) |-> files[i].path]

\* the for loop over examples_path.read_dir(): one path per entry
ExamplePaths(entries) == [i \in 1..Len(entries) |-> entries[i].path]

\* "See if there are any examples"
DiscoverExamples(path, b, ops) ==
    LET examples_path == canonicalize(join(parent(path)[1], ExamplesName))
    IN  IF examples_path = None THEN Outcome("Ok", b, ops)
        ELSE LET entries == read_dir(examples_path[1])
                 ops2 == Append(ops, Op("read_dir", examples_path[1]))
             IN  IF entries = None THEN Outcome("Panic", b, ops2)
                 ELSE Outcome("Ok",
                              [b EXCEPT !.examples =
                                  b.examples \o ExamplePaths(entries[1])],
                              ops2)

\* a loader that takes a missing image for an error
DiscoverSiblingsImageRequired(path, b, ops) ==
    LET pic_path == canonicalize(with_extension(path, "png"))
    IN  IF pic_path = None THEN Outcome("Err", NoBoard, ops)
        ELSE LET image == decode(pic_path[1])
                 ops2 == Append(ops, Op("open", pic_path[1]))
             IN  IF image = None THEN Outcome("Panic", b, ops2)
                 ELSE DiscoverExamples(path, [b EXCEPT !.pic = image], ops2)

\* "See if there is an image", then the examples
DiscoverSiblings(path, b, ops) ==
    LET pic_path == canonicalize(with_extension(path, "png"))
    IN  IF pic_path = None THEN DiscoverExamples(path, b, ops)
        ELSE LET image == decode(pic_path[1])
                 ops2 == Append(ops, Op("open", pic_path[1]))
             IN  IF image = None THEN Outcome("Panic", b, ops2)
                 ELSE DiscoverExamples(path, [b EXCEPT !.pic = image], ops2)

\* a loader that looks for the siblings before it reads the metadata
load_siblings_first(path) ==
    LET found == DiscoverSiblings(path, NoBoard, <<>>)
        toml_str == read_to_string(path)
        ops == Append(found.ops, Op("read_to_string", path))
    IN  IF found.tag = "Panic" THEN found
        ELSE IF toml_str = None THEN Outcome("Err", NoBoard, ops)
        ELSE LET b == from_str(toml_str[1])
             IN  IF b = None THEN Outcome("Err", NoBoard, ops)
                 ELSE Outcome("Ok", [b[1] EXCEPT !.pic = found.board.pic,
                                                 !.examples = found.board.examples], ops)

load_from_toml(path) ==
    LET toml_str == read_to_string(path)
        ops == << Op("read_to_string", path) >>
    IN  IF toml_str = None THEN Outcome("Err", NoBoard, ops)
        ELSE LET b == from_str(toml_str[1])
             IN  IF b = None THEN Outcome("Err", NoBoard, ops)
                 ELSE DiscoverSiblings(path, b[1], ops)

----------------------------------------------------------------------------
(* get_boards.  A frame is one active call: the directory it scans, the    *)
(* entries its for loop has still to visit, and its accumulator r.         *)

\* `if let Ok(entries) = fs::read_dir(boards_dir)`: no loop at all on Err
EntriesToVisit(boards_dir) ==
    LET entries == read_dir(boards_dir)
    IN  IF entries = None THEN <<>> ELSE entries[1]

Frame(boards_dir) ==
    [dir |-> boards_dir, todo |-> EntriesToVisit(boards_dir), r |-> <<>>]

\* without the check every directory is recursed into
IsExamplesNever(path) == FALSE

\* entry.path().ends_with("examples")
IsExamples(path) == ends_with(path, ExamplesName)

\* taking every file that has an extension for a metadata file
IsMetadataAnyExtension(path) == extension(path) # None

\* entry.path().extension().unwrap() == "toml", given that there is an extension
IsMetadata(path) == extension(path)[1] = TomlExt

\* r = get_boards(..) would drop what r already holds
KeepReturnedOnly(r, returned) == returned

\* get_boards(..) followed by r would put the subdirectory's Boards first
PrependReturned(r, returned) == returned \o r

\* r.append(&mut get_boards(&entry.path()))
AppendReturned(r, returned) == r \o returned

\* pushing whatever the loader left, whether or not it succeeded
PushAlways(r, loaded) == Append(r, loaded.board)

\* `if let Ok(board) = Board::load_from_toml(..) { r.push(board) }`
PushLoaded(r, loaded) == IF loaded.tag = "Ok" THEN Append(r, loaded.board) ELSE r

Top == stack[Len(stack)]
Entry == Head(Top.todo)
EntryPath == Entry.path
Looping == pc = "running" /\ stack # <<>> /\ Top.todo # <<>>
Advance(r) == [stack EXCEPT ![Len(stack)] = [@ EXCEPT !.todo = Tail(@), !.r = r]]

\* the caller invokes get_boards(boards_dir)
Call ==
    /\ pc = "start"
    /\ pc' = "running"
    /\ stack' = << Frame(BoardsDir) >>
    /\ trace' = Append(trace, Op("read_dir", BoardsDir))
    /\ UNCHANGED << fs, result, log, lhs, rhs, third, eq_out >>

\* a directory named "examples": continue
SkipExamples ==
    /\ Looping
    /\ Entry.is_dir
    /\ IsExamples(EntryPath)
    /\ stack' = Advance(Top.r)
    /\ UNCHANGED << fs, pc, result, log, trace, lhs, rhs, third, eq_out >>

\* any other directory: the recursive call
Recurse ==
    /\ Looping
    /\ Entry.is_dir
    /\ ~IsExamples(EntryPath)
    /\ stack' = Append(Advance(Top.r), Frame(EntryPath))
    /\ trace' = Append(trace, Op("read_dir", EntryPath))
    /\ UNCHANGED << fs, pc, result, log, lhs, rhs, third, eq_out >>

\* a file without an extension: extension().unwrap() panics
PanicNoExtension ==
    /\ Looping
    /\ ~Entry.is_dir
    /\ extension(EntryPath) = None
    /\ pc' = "panicked"
    /\ UNCHANGED << fs, stack, result, log, trace, lhs, rhs, third, eq_out >>

\* a file with the metadata extension: load it, push or warn
LoadBoard ==
    /\ Looping
    /\ ~Entry.is_dir
    /\ extension(EntryPath) # None
    /\ IsMetadata(EntryPath)
    /\ LET loaded == load_from_toml(EntryPath)
       IN  /\ trace' = trace \o loaded.ops
           /\ \/ /\ loaded.tag = "Ok"
                 /\ stack' = Advance(PushLoaded(Top.r, loaded))
                 /\ UNCHANGED << pc, log >>
              \/ /\ loaded.tag = "Err"
                 /\ stack' = Advance(PushLoaded(Top.r, loaded))
                 /\ log' = Append(log, EntryPath)
                 /\ UNCHANGED pc
              \/ /\ loaded.tag = "Panic"
                 /\ pc' = "panicked"
                 /\ UNCHANGED << stack, log >>
    /\ UNCHANGED << fs, result, lhs, rhs, third, eq_out >>

\* a file with any other extension: nothing
IgnoreFile ==
    /\ Looping
    /\ ~Entry.is_dir
    /\ extension(EntryPath) # None
    /\ ~IsMetadata(EntryPath)
    /\ stack' = Advance(Top.r)
    /\ UNCHANGED << fs, pc, result, log, trace, lhs, rhs, third, eq_out >>

\* the loop is over: return r, to the calling frame or to the caller
Return ==
    /\ pc = "running"
    /\ stack # <<>>
    /\ Top.todo = <<>>
    /\ IF Len(stack) = 1
       THEN /\ result' = Top.r
            /\ pc' = "done"
            /\ stack' = <<>>
       ELSE /\ stack' = [SubSeq(stack, 1, Len(stack) - 1) EXCEPT
                            ![Len(stack) - 1].r = AppendReturned(@, Top.r)]
            /\ UNCHANGED << pc, result >>
    /\ UNCHANGED << fs, log, trace, lhs, rhs, third, eq_out >>

----------------------------------------------------------------------------
(* Board's ==, applied to three Boards.                                    *)
NotCompared == [done |-> FALSE, ab |-> FALSE, ba |-> FALSE, bc |-> FALSE,
                ac |-> FALSE, aa |-> FALSE]

Paths == { <<>>, << Cwd \o BoardsDir \o << ExamplesName, Name("blink", Some("ino")) >> >> }

Boards ==
    { [Board(n, m, o) EXCEPT !.examples = e, !.pic = p] :
        n \in BoardNames, m \in {"M", "M2"}, o \in {None, Some("x")},
        e \in Paths, p \in {None, Some(Cwd \o BoardsDir)} }

Compare ==
    /\ ~eq_out.done
    /\ eq_out' = [done |-> TRUE,
                  ab |-> Board_eq(lhs, rhs), ba |-> Board_eq(rhs, lhs),
                  bc |-> Board_eq(rhs, third), ac |-> Board_eq(lhs, third),
                  aa |-> Board_eq(lhs, lhs)]
    /\ UNCHANGED << fs, pc, stack, result, log, trace, lhs, rhs, third >>

EqInit ==
    /\ fs = [listable |-> FALSE, entries |-> <<>>]
    /\ pc = "start"
    /\ stack = <<>>
    /\ result = <<>>
    /\ log = <<>>
    /\ trace = <<>>
    /\ lhs \in Boards /\ rhs \in Boards /\ third \in Boards
    /\ eq_out = NotCompared

EqNext == Compare

SpecEq == EqInit /\ [][EqNext]_vars

----------------------------------------------------------------------------
Init ==
    /\ \E n \in 0..MaxCoreEntries :
         \E par \in Shapes(n) :
            \E ent \in [1..n -> IF n <= MaxEntries THEN Entries ELSE CoreEntries] :
               /\ IsTree(par, ent)
               /\ \E l \in BOOLEAN : fs = [listable |-> l, entries |-> Table(par, ent)]
    /\ pc = "start"
    /\ stack = <<>>
    /\ result = <<>>
    /\ log = <<>>
    /\ trace = <<>>
    /\ lhs = NoBoard /\ rhs = NoBoard /\ third = NoBoard
    /\ eq_out = NotCompared

Next ==
    \/ Call
    \/ SkipExamples
    \/ Recurse
    \/ PanicNoExtension
    \/ LoadBoard
    \/ IgnoreFile
    \/ Return

Spec == Init /\ [][Next]_vars

----------------------------------------------------------------------------
(* What the claims speak of, read off a file-system table f alone.         *)

AllIds(f) == 1..Len(f.entries)
ParentMap(f) == [i \in AllIds(f) |-> f.entries[i].parent]

\* the directories above entry id, boards_dir (0) included
Above(f, id) == Ancestors(ParentMap(f), f.entries[id].parent)

RECURSIVE PathTo(_, _)
\* the path of entry id as boards_dir-relative callers see it
PathTo(f, id) ==
    IF id = 0 THEN BoardsDir
    ELSE Append(PathTo(f, f.entries[id].parent), f.entries[id].name)

\* the same path made absolute
AbsolutePathTo(f, id) == Cwd \o PathTo(f, id)

IsListable(f, id) == IF id = 0 THEN f.listable ELSE f.entries[id].listable
NamedExamples(f, id) == id # 0 /\ f.entries[id].is_dir /\ f.entries[id].name = ExamplesName

\* every directory above id can be listed and none is named "examples"
Traversed(f, id) == \A a \in Above(f, id) : IsListable(f, a) /\ ~NamedExamples(f, a)

\* id lies in or below a directory named "examples"
UnderExamples(f, id) == \E a \in Above(f, id) : NamedExamples(f, a)

\* id lies below a directory that cannot be listed
BelowUnlistable(f, id) == \E a \in Above(f, id) : ~IsListable(f, a)

HasTomlExtension(f, id) == ~f.entries[id].is_dir /\ f.entries[id].name.ext = Some(TomlExt)
WellFormed(f, id) == HasTomlExtension(f, id) /\ f.entries[id].text = "valid"
Failing(f, id) == HasTomlExtension(f, id) /\ f.entries[id].text # "valid"

\* the entries next to id that carry the given name (none or one)
Siblings(f, id, name) ==
    { j \in AllIds(f) : f.entries[j].parent = f.entries[id].parent /\ f.entries[j].name = name }

ImageOf(f, id) == Siblings(f, id, Name(f.entries[id].name.stem, Some("png")))
ExamplesOf(f, id) == Siblings(f, id, ExamplesName)

\* the ids in s, in table (depth-first) order
InOrder(f, s) == SelectSeq([i \in AllIds(f) |-> i], LAMBDA i : i \in s)

\* the absolute paths of the immediate entries of directory d, in enumeration order
ListingOf(f, d) ==
    LET kids == InOrder(f, { j \in AllIds(f) : f.entries[j].parent = d })
    IN  [k \in 1..Len(kids) |-> AbsolutePathTo(f, kids[k])]

\* the Board the metadata file id stands for, with its discovered fields
ExpectedBoard(f, id) ==
    LET k == f.entries[id].keys
        img == ImageOf(f, id)
        ex == ExamplesOf(f, id)
    IN  [Board(k.name, k.manufacturer, k.other) EXCEPT
           !.pic = IF img = {} THEN None ELSE Some(AbsolutePathTo(f, CHOOSE j \in img : TRUE)),
           !.examples = IF ex = {} THEN <<>> ELSE ListingOf(f, CHOOSE j \in ex : TRUE)]

\* the well-formed metadata files the traversal reaches
Loadable(f) == { id \in AllIds(f) : Traversed(f, id) /\ WellFormed(f, id) }

\* the catalog in depth-first pre-order
ExpectedCatalog(f) ==
    LET ids == InOrder(f, Loadable(f))
    IN  [k \in 1..Len(ids) |-> ExpectedBoard(f, ids[k])]

\* f with the entries in gone removed (gone holds whole subtrees only)
Without(f, gone) ==
    LET kept == InOrder(f, AllIds(f) \ gone)
        renumber(i) == IF i = 0 THEN 0 ELSE Cardinality({ j \in 1..i : j \notin gone })
    IN  [listable |-> f.listable,
         entries |-> [k \in 1..Len(kept) |->
                        [f.entries[kept[k]] EXCEPT !.parent = renumber(@)]]]

\* the entry the scan is at, as an id of the table
EntryId == CHOOSE id \in Ids : PathTo(fs, id) = EntryPath

\* every Vec<Board> the scan holds: each frame's r and the returned result
Accumulators == { stack[i].r : i \in 1..Len(stack) } \cup { result }
Range(seq) == { seq[i] : i \in 1..Len(seq) }

----------------------------------------------------------------------------
\* C1: whenever get_boards returns, the length of the result is the number of
\* readable, well-formed .toml files reached through listable directories none
\* of which is named "examples"; files with another extension add nothing.
C1_LengthIsLoadableCount ==
    pc = "done" => Len(result) = Cardinality(Loadable(fs))

C1_Witness ==
    /\ pc = "done"
    /\ Len(result) = 1
    /\ \E id \in Ids : WellFormed(fs, id) /\ UnderExamples(fs, id)
    /\ \E id \in Ids : fs.entries[id].name.ext = Some("txt") /\ Traversed(fs, id)

\* C2: whenever get_boards returns, one warning was logged for each scanned
\* metadata file that is unreadable or malformed, in scan order, and the result
\* is the catalog of the tree with those files absent.
C2_FailingFilesSkipped ==
    pc = "done" =>
        LET failed == { id \in Ids : Traversed(fs, id) /\ Failing(fs, id) }
            ids == InOrder(fs, failed)
        IN  /\ log = [k \in 1..Len(ids) |-> PathTo(fs, ids[k])]
            /\ result = ExpectedCatalog(Without(fs, failed))

C2_Witness ==
    /\ pc = "done"
    /\ Len(log) = 1
    /\ Len(result) = 1
    /\ Len(fs.entries) >= 2
    /\ Failing(fs, 1)
    /\ WellFormed(fs, 2)

\* C3: no call of get_boards ever scans a directory named "examples" or one
\* below it, no file in or below such a directory is ever loaded as metadata,
\* and every path in a Board's examples is an immediate entry of an "examples"
\* directory that has a well-formed metadata file declaring that Board's name
\* as a sibling.
C3_ExamplesNeverScanned ==
    /\ \A i \in 1..Len(stack) : ExamplesName \notin Range(stack[i].dir)
    /\ \A i \in 1..Len(trace) :
          trace[i].op = "read_to_string" => ExamplesName \notin Range(trace[i].path)
    /\ \A r \in Accumulators : \A k \in 1..Len(r) : \A e \in Range(r[k].examples) :
          \E x \in Ids :
             /\ AbsolutePathTo(fs, x) = e
             /\ NamedExamples(fs, fs.entries[x].parent)
             /\ \E t \in Ids :
                   /\ WellFormed(fs, t)
                   /\ fs.entries[t].keys.name = r[k].name
                   /\ fs.entries[x].parent \in ExamplesOf(fs, t)

C3_Witness ==
    /\ pc = "done"
    /\ Len(result) = 1
    /\ \E id \in Ids :
          /\ WellFormed(fs, id)
          /\ UnderExamples(fs, id)
          /\ AbsolutePathTo(fs, id) \in Range(result[1].examples)
    /\ \E id \in Ids : NamedExamples(fs, id) /\ fs.entries[id].parent # 0

\* C4: get_boards panics only if a scanned file has no extension or a
\* well-formed metadata file has a same-stem image that cannot be decoded.
C4_OnlyTwoFatalErrors ==
    pc = "panicked" =>
        \/ \E id \in Ids :
              /\ Traversed(fs, id)
              /\ ~fs.entries[id].is_dir
              /\ fs.entries[id].name.ext = None
        \/ \E id \in Loadable(fs) : \E j \in ImageOf(fs, id) : ~fs.entries[j].decodes

\* C5: if boards_dir cannot be listed the scan never panics, logs nothing and
\* returns the empty sequence; a call on any directory that cannot be listed
\* has nothing to visit and accumulates nothing; and whenever get_boards
\* returns, the result is the catalog of the tree with everything below its
\* unlistable directories absent.
C5_UnlistableIsEmpty ==
    /\ ~fs.listable => pc # "panicked" /\ log = <<>> /\ result = <<>>
    /\ \A i \in 1..Len(stack) :
          (\E d \in Ids \cup {0} : PathTo(fs, d) = stack[i].dir /\ ~IsListable(fs, d))
             => stack[i].todo = <<>> /\ stack[i].r = <<>>
    /\ pc = "done" =>
          result = ExpectedCatalog(Without(fs, { id \in Ids : BelowUnlistable(fs, id) }))

C5_Witness ==
    /\ pc = "done"
    /\ result # <<>>
    /\ \E d \in Ids :
          /\ fs.entries[d].is_dir
          /\ ~fs.entries[d].listable
          /\ Traversed(fs, d)
          /\ ~NamedExamples(fs, d)
          /\ Op("read_dir", PathTo(fs, d)) \in Range(trace)
          /\ \E id \in Ids : fs.entries[id].parent = d /\ WellFormed(fs, id)

\* C6: a == b exactly if a.name = b.name, whatever the other fields; so ==
\* is reflexive, symmetric and transitive.
C6_EqualByNameAlone ==
    eq_out.done =>
        /\ eq_out.ab <=> (lhs.name = rhs.name)
        /\ eq_out.aa
        /\ eq_out.ab <=> eq_out.ba
        /\ (eq_out.ab /\ eq_out.bc) => eq_out.ac

C6_Witness ==
    /\ eq_out.done
    /\ eq_out.ab
    /\ lhs.manufacturer # rhs.manufacturer
    /\ lhs.standard # rhs.standard
    /\ lhs.cpu # rhs.cpu
    /\ lhs.ram # rhs.ram
    /\ lhs.flash # rhs.flash
    /\ lhs.related_crates # rhs.related_crates
    /\ lhs.examples # rhs.examples
    /\ lhs.pic # rhs.pic
    /\ ~eq_out.bc

\* the scan is about to load a readable, well-formed metadata file
LoadingWellFormed ==
    /\ Looping
    /\ ~Entry.is_dir
    /\ extension(EntryPath) = Some(TomlExt)
    /\ WellFormed(fs, EntryId)

\* the step appended exactly one Board to the current frame's r and went on
Pushed ==
    /\ pc' = "running"
    /\ log' = log
    /\ Len(stack') = Len(stack)
    /\ Len(stack'[Len(stack)].r) = Len(Top.r) + 1
    /\ SubSeq(stack'[Len(stack)].r, 1, Len(Top.r)) = Top.r
    /\ stack'[Len(stack)].todo = Tail(Top.todo)

LastPushed == stack'[Len(stack)].r[Len(Top.r) + 1]

ImageUsable(f, id) == \A j \in ImageOf(f, id) : ~f.entries[j].is_dir /\ f.entries[j].decodes
ExamplesUsable(f, id) == \A j \in ExamplesOf(f, id) : f.entries[j].is_dir /\ f.entries[j].listable

C8_ExamplesAreTheListing ==
    [][ (LoadingWellFormed /\ ExamplesOf(fs, EntryId) # {} /\ pc' # "panicked") =>
          /\ Pushed
          /\ LastPushed.examples = ListingOf(fs, CHOOSE j \in ExamplesOf(fs, EntryId) : TRUE)
      ]_vars

C8_Witness ==
    /\ pc = "done"
    /\ Len(result) = 1
    /\ Len(result[1].examples) = 2
    /\ \E d, x \in Ids :
          /\ d < x
          /\ fs.entries[d].is_dir
          /\ fs.entries[x].parent = fs.entries[d].parent
          /\ result[1].examples = << AbsolutePathTo(fs, d), AbsolutePathTo(fs, x) >>

\* C9: whenever get_boards returns, the result is the Boards of the loadable
\* metadata files in depth-first pre-order of enumeration, one per file,
\* neither sorted nor deduplicated.
C9_DepthFirstOrder ==
    pc = "done" => result = ExpectedCatalog(fs)

C9_Witness ==
    /\ pc = "done"
    /\ Len(result) = 3
    /\ result[1].name = "N2" /\ result[2].name = "N1" /\ result[3].name = "N1"
    /\ Len(fs.entries) = 4
    /\ fs.entries[2].is_dir
    /\ fs.entries[3].parent = 2
    /\ fs.entries[4].parent = 0

\* C10: a panic happens only at a file without extension or in loading a
\* well-formed metadata file; the image is opened and the examples directory
\* listed only right after the read of a well-formed metadata file next to
\* them; so an unreadable or malformed metadata file is only logged, whatever
\* its siblings, and an image alone never aborts the scan.
C10_ParseBeforeSiblings ==
    /\ pc = "panicked" =>
          /\ ~Entry.is_dir
          /\ extension(EntryPath) # None => WellFormed(fs, EntryId)
    /\ \A i \in 1..Len(trace) :
          (trace[i].op = "open" \/ (trace[i].op = "read_dir" /\ IsAbsolute(trace[i].path))) =>
             \E j \in { i - 1, i - 2 } \cap (1..Len(trace)) : \E t \in Ids :
                /\ trace[j] = Op("read_to_string", PathTo(fs, t))
                /\ WellFormed(fs, t)
                /\ \E x \in ImageOf(fs, t) \cup ExamplesOf(fs, t) :
                      trace[i].path = AbsolutePathTo(fs, x)
    /\ \A id \in Ids :
          (Failing(fs, id) /\ Op("read_to_string", PathTo(fs, id)) \in Range(trace))
             => PathTo(fs, id) \in Range(log)

C10_Witness ==
    /\ pc = "done"
    /\ Len(log) = 1
    /\ \E id \in Ids :
          /\ Failing(fs, id)
          /\ \E j \in ImageOf(fs, id) : ~fs.entries[j].decodes
          /\ \E j \in ExamplesOf(fs, id) : ~fs.entries[j].listable

====
